---------------------------- MODULE Spec2Model ----------------------------
(***************************************************************************)
(* Dragonchess rules engine: the three-layer board (bitboard.py), the      *)
(* fifteen move generators (moves.py), the Game session object (game.py)   *)
(* and the AI-vs-AI harness loop (simulation.py, ai.py).                   *)
(***************************************************************************)
EXTENDS Integers, Sequences, FiniteSets, TLC

-----------------------------------------------------------------------------
(* bitboard.py : dimensions, index mapping                                  *)

NUM_BOARDS == 3
BOARD_ROWS == 8
BOARD_COLS == 12
TOTAL_SQUARES == NUM_BOARDS * BOARD_ROWS * BOARD_COLS

Cells == 0 .. (TOTAL_SQUARES - 1)

pos_to_index(layer, row, col) ==
    layer * (BOARD_ROWS * BOARD_COLS) + row * BOARD_COLS + col

\* index_to_pos dividing the remainder by BOARD_ROWS
index_to_pos_by_rows(index) ==
    LET layer == index \div (BOARD_ROWS * BOARD_COLS)
        rem   == index % (BOARD_ROWS * BOARD_COLS)
    IN  <<layer, rem \div BOARD_ROWS, rem % BOARD_ROWS>>

index_to_pos(index) ==
    LET layer == index \div (BOARD_ROWS * BOARD_COLS)
        rem   == index % (BOARD_ROWS * BOARD_COLS)
    IN  <<layer, rem \div BOARD_COLS, rem % BOARD_COLS>>

(* moves.py : flags and bounds test                                         *)

QUIET     == 0
CAPTURE   == 1
AFAR      == 2
AMBIGUOUS == 3
THREED    == 4

Flags == {QUIET, CAPTURE, AFAR, AMBIGUOUS, THREED}

in_bounds(layer, row, col) ==
    /\ 0 <= layer /\ layer < NUM_BOARDS
    /\ 0 <= row /\ row < BOARD_ROWS
    /\ 0 <= col /\ col < BOARD_COLS

-----------------------------------------------------------------------------
(* Sequence helpers                                                         *)

\* concatenation of the sequences ss[lo], ..., ss[hi], in order
RECURSIVE FlattenRange(_, _, _)
FlattenRange(ss, lo, hi) ==
    IF lo > hi THEN <<>>
    ELSE IF lo = hi THEN ss[lo]
    ELSE LET mid == (lo + hi) \div 2
         IN  FlattenRange(ss, lo, mid) \o FlattenRange(ss, mid + 1, hi)

Flatten(ss) == FlattenRange(ss, 1, Len(ss))

SeqToSet(s) == {s[k] : k \in 1 .. Len(s)}

Abs(x) == IF x < 0 THEN -x ELSE x

\* range(start, BOARD_COLS, 2) as a sequence
EveryOtherCol(start) == [k \in 1 .. (BOARD_COLS \div 2) |-> start + 2 * (k - 1)]
AllCols == [k \in 1 .. BOARD_COLS |-> k - 1]

-----------------------------------------------------------------------------
(* bitboard.py : create_initial_board                                       *)

EmptyBoard == [i \in Cells |-> 0]

\* the board after the assignments board[pos_to_index(l, r, c)] = piece of
\* placements, made in order on an all-zero array: a later one overwrites
PlaceAll(board, placements) ==
    LET index(k) == pos_to_index(placements[k][1], placements[k][2], placements[k][3])
        written == {index(k) : k \in 1 .. Len(placements)}
        last(i) == CHOOSE k \in 1 .. Len(placements) :
                      /\ index(k) = i
                      /\ \A j \in 1 .. Len(placements) : index(j) = i => j <= k
    IN  [i \in written |-> placements[last(i)][4]] @@ board

scarlet_middle == <<-4, -5, -6, -7, -8, -9, -10, -11, -7, -6, -5, -4>>
\* gold_middle with a second Mage where the King stands
gold_middle_no_king == <<4, 5, 6, 7, 8, 9, 9, 11, 7, 6, 5, 4>>
gold_middle    == <<4, 5, 6, 7, 8, 9, 10, 11, 7, 6, 5, 4>>

create_initial_board ==
    PlaceAll(EmptyBoard,
        <<<<0, 0, 2, -2>>, <<0, 0, 6, -3>>, <<0, 0, 10, -2>>>>
        \o [k \in 1 .. 6 |-> <<0, 1, EveryOtherCol(0)[k], -1>>]
        \o [k \in 1 .. 6 |-> <<0, 6, EveryOtherCol(0)[k], 1>>]
        \o <<<<0, 7, 2, 2>>, <<0, 7, 6, 3>>, <<0, 7, 10, 2>>>>
        \o [k \in 1 .. BOARD_COLS |-> <<1, 0, k - 1, scarlet_middle[k]>>]
        \o [k \in 1 .. BOARD_COLS |-> <<1, 1, k - 1, -12>>]
        \o [k \in 1 .. BOARD_COLS |-> <<1, 6, k - 1, 12>>]
        \o [k \in 1 .. BOARD_COLS |-> <<1, 7, k - 1, gold_middle[k]>>]
        \o <<<<2, 0, 2, -13>>, <<2, 0, 6, -14>>, <<2, 0, 10, -13>>>>
        \o [k \in 1 .. 6 |-> <<2, 1, EveryOtherCol(1)[k], -15>>]
        \o <<<<2, 7, 2, 13>>, <<2, 7, 6, 14>>, <<2, 7, 10, 13>>>>
        \o [k \in 1 .. 6 |-> <<2, 6, EveryOtherCol(1)[k], 15>>])

-----------------------------------------------------------------------------
(* moves.py : occupancy tests shared by the generators                      *)

\* Enemy accepting a piece of either side
EnemyOrFriend(board, color, idx) == board[idx] # 0

Enemy(board, color, idx) ==
    \/ color = "Gold" /\ board[idx] < 0
    \/ color = "Scarlet" /\ board[idx] > 0

EmptyOrEnemy(board, color, idx) == board[idx] = 0 \/ Enemy(board, color, idx)

Direction(color) == IF color = "Gold" THEN -1 ELSE 1

KingOffsets == << <<-1, -1>>, <<-1, 0>>, <<-1, 1>>, <<0, -1>>,
                  <<0, 1>>, <<1, -1>>, <<1, 0>>, <<1, 1>> >>
DiagOffsets == << <<-1, -1>>, <<-1, 1>>, <<1, -1>>, <<1, 1>> >>
KnightOffsets == << <<2, 1>>, <<2, -1>>, <<-2, 1>>, <<-2, -1>>,
                    <<1, 2>>, <<1, -2>>, <<-1, 2>>, <<-1, -2>> >>

\* one candidate per offset whose square, on layer tl, is in bounds and is
\* empty or holds an enemy
StepMoves(from_idx, board, color, tl, row, col, offsets, flag) ==
    Flatten([k \in 1 .. Len(offsets) |->
        LET new_row == row + offsets[k][1]
            new_col == col + offsets[k][2]
        IN  IF in_bounds(tl, new_row, new_col)
               /\ EmptyOrEnemy(board, color, pos_to_index(tl, new_row, new_col))
            THEN << <<from_idx, pos_to_index(tl, new_row, new_col), flag>> >>
            ELSE <<>>])

\* the while-True slide: empty squares are added, the first occupied square
\* is added only if it holds an enemy, and ends the slide
RECURSIVE Slide(_, _, _, _, _, _, _, _)
Slide(from_idx, board, color, layer, r, c, dr, dc) ==
    LET nr == r + dr
        nc == c + dc
    IN  IF ~in_bounds(layer, nr, nc) THEN <<>>
        ELSE LET to_idx == pos_to_index(layer, nr, nc)
             IN  IF board[to_idx] = 0
                 THEN << <<from_idx, to_idx, AMBIGUOUS>> >>
                      \o Slide(from_idx, board, color, layer, nr, nc, dr, dc)
                 ELSE IF Enemy(board, color, to_idx)
                      THEN << <<from_idx, to_idx, AMBIGUOUS>> >>
                      ELSE <<>>

SlideMoves(from_idx, board, color, layer, row, col, dirs) ==
    Flatten([k \in 1 .. Len(dirs) |->
        Slide(from_idx, board, color, layer, row, col, dirs[k][1], dirs[k][2])])

-----------------------------------------------------------------------------
(* moves.py : the fifteen generators, generate_X_moves(pos, board, color)   *)

generate_sylph_moves(pos, board, color) ==
    LET layer == pos[1]
        row == pos[2]
        col == pos[3]
        from_idx == pos_to_index(layer, row, col)
        direction == Direction(color)
        home_row == IF color = "Gold" THEN BOARD_ROWS - 1 ELSE 0
        home_cols == IF color = "Gold" THEN EveryOtherCol(0) ELSE EveryOtherCol(1)
    IN  IF layer = 0 THEN
            Flatten([k \in 1 .. 2 |->
                LET new_col == col + <<-1, 1>>[k]
                IN  IF in_bounds(layer, row + direction, new_col)
                       /\ board[pos_to_index(layer, row + direction, new_col)] = 0
                    THEN << <<from_idx, pos_to_index(layer, row + direction, new_col), QUIET>> >>
                    ELSE <<>>])
            \o (IF in_bounds(layer, row + direction, col)
                   /\ board[pos_to_index(layer, row + direction, col)] # 0
                   /\ Enemy(board, color, pos_to_index(layer, row + direction, col))
                THEN << <<from_idx, pos_to_index(layer, row + direction, col), CAPTURE>> >>
                ELSE <<>>)
            \o (IF in_bounds(1, row, col)
                   /\ board[pos_to_index(1, row, col)] # 0
                   /\ Enemy(board, color, pos_to_index(1, row, col))
                THEN << <<from_idx, pos_to_index(1, row, col), CAPTURE>> >>
                ELSE <<>>)
        ELSE IF layer = 1 THEN
            (IF in_bounds(0, row, col) /\ board[pos_to_index(0, row, col)] = 0
             THEN << <<from_idx, pos_to_index(0, row, col), QUIET>> >>
             ELSE <<>>)
            \o Flatten([k \in 1 .. Len(home_cols) |->
                IF in_bounds(0, home_row, home_cols[k])
                   /\ board[pos_to_index(0, home_row, home_cols[k])] = 0
                THEN << <<from_idx, pos_to_index(0, home_row, home_cols[k]), QUIET>> >>
                ELSE <<>>])
        ELSE <<>>

GriffinOffsets == << <<3, 2>>, <<3, -2>>, <<-3, 2>>, <<-3, -2>>,
                     <<2, 3>>, <<2, -3>>, <<-2, 3>>, <<-2, -3>> >>

generate_griffin_moves(pos, board, color) ==
    LET layer == pos[1]
        row == pos[2]
        col == pos[3]
        from_idx == pos_to_index(layer, row, col)
    IN  IF layer = 0 THEN
            StepMoves(from_idx, board, color, 0, row, col, GriffinOffsets, AMBIGUOUS)
            \o StepMoves(from_idx, board, color, 1, row, col, DiagOffsets, AMBIGUOUS)
        ELSE IF layer = 1 THEN
            StepMoves(from_idx, board, color, 1, row, col, DiagOffsets, AMBIGUOUS)
            \o StepMoves(from_idx, board, color, 0, row, col, DiagOffsets, AMBIGUOUS)
        ELSE <<>>

\* the "capture from afar" squares: an enemy on the middle layer
AfarMoves(from_idx, board, color, row, col, offsets) ==
    Flatten([k \in 1 .. Len(offsets) |->
        LET new_row == row + offsets[k][1]
            new_col == col + offsets[k][2]
        IN  IF in_bounds(1, new_row, new_col)
               /\ board[pos_to_index(1, new_row, new_col)] # 0
               /\ Enemy(board, color, pos_to_index(1, new_row, new_col))
            THEN << <<from_idx, pos_to_index(1, new_row, new_col), AFAR>> >>
            ELSE <<>>])

\* generate_dragon_moves without the return for a Dragon off the top layer
generate_dragon_moves_any_layer(pos, board, color) ==
    LET layer == pos[1]
        row == pos[2]
        col == pos[3]
        from_idx == pos_to_index(layer, row, col)
    IN  StepMoves(from_idx, board, color, layer, row, col, KingOffsets, AMBIGUOUS)
        \o SlideMoves(from_idx, board, color, layer, row, col, DiagOffsets)
        \o AfarMoves(from_idx, board, color, row, col, << <<0, 0>> >>)
        \o AfarMoves(from_idx, board, color, row, col,
                     << <<0, 1>>, <<0, -1>>, <<1, 0>>, <<-1, 0>> >>)

generate_dragon_moves(pos, board, color) ==
    LET layer == pos[1]
        row == pos[2]
        col == pos[3]
        from_idx == pos_to_index(layer, row, col)
    IN  IF layer # 0 THEN <<>>
        ELSE StepMoves(from_idx, board, color, layer, row, col, KingOffsets, AMBIGUOUS)
             \o SlideMoves(from_idx, board, color, layer, row, col, DiagOffsets)
             \o AfarMoves(from_idx, board, color, row, col, << <<0, 0>> >>)
             \o AfarMoves(from_idx, board, color, row, col,
                          << <<0, 1>>, <<0, -1>>, <<1, 0>>, <<-1, 0>> >>)

generate_oliphant_moves(pos, board, color) ==
    LET layer == pos[1]
        row == pos[2]
        col == pos[3]
        from_idx == pos_to_index(layer, row, col)
    IN  IF layer # 1 THEN <<>>
        ELSE SlideMoves(from_idx, board, color, layer, row, col,
                        << <<1, 0>>, <<-1, 0>>, <<0, 1>>, <<0, -1>> >>)

\* generate_unicorn_moves with the knight jumps landing on the top layer
generate_unicorn_moves_to_top(pos, board, color) ==
    LET layer == pos[1]
        row == pos[2]
        col == pos[3]
        from_idx == pos_to_index(layer, row, col)
    IN  IF layer # 1 THEN <<>>
        ELSE StepMoves(from_idx, board, color, 0, row, col, KnightOffsets, AMBIGUOUS)

generate_unicorn_moves(pos, board, color) ==
    LET layer == pos[1]
        row == pos[2]
        col == pos[3]
        from_idx == pos_to_index(layer, row, col)
    IN  IF layer # 1 THEN <<>>
        ELSE StepMoves(from_idx, board, color, layer, row, col, KnightOffsets, AMBIGUOUS)

\* for dr in (-2,-1,1,2): for dc in (-2,-1,1,2): if abs(dr) == abs(dc)
HeroOffsets ==
    LET vals == <<-2, -1, 1, 2>>
    IN  SelectSeq([k \in 1 .. 16 |-> <<vals[((k - 1) \div 4) + 1], vals[((k - 1) % 4) + 1]>>],
                  LAMBDA o : Abs(o[1]) = Abs(o[2]))

generate_hero_moves(pos, board, color) ==
    LET layer == pos[1]
        row == pos[2]
        col == pos[3]
        from_idx == pos_to_index(layer, row, col)
    IN  IF layer = 1 THEN
            StepMoves(from_idx, board, color, layer, row, col, HeroOffsets, AMBIGUOUS)
            \o StepMoves(from_idx, board, color, 0, row, col, DiagOffsets, AMBIGUOUS)
            \o StepMoves(from_idx, board, color, 2, row, col, DiagOffsets, AMBIGUOUS)
        ELSE StepMoves(from_idx, board, color, 1, row, col, DiagOffsets, AMBIGUOUS)

generate_thief_moves(pos, board, color) ==
    LET layer == pos[1]
        row == pos[2]
        col == pos[3]
        from_idx == pos_to_index(layer, row, col)
    IN  IF layer # 1 THEN <<>>
        ELSE SlideMoves(from_idx, board, color, layer, row, col, DiagOffsets)

generate_cleric_moves(pos, board, color) ==
    LET layer == pos[1]
        row == pos[2]
        col == pos[3]
        from_idx == pos_to_index(layer, row, col)
        here == << <<0, 0>> >>
    IN  StepMoves(from_idx, board, color, layer, row, col, KingOffsets, AMBIGUOUS)
        \o (IF layer = 0 THEN StepMoves(from_idx, board, color, 1, row, col, here, AMBIGUOUS)
            ELSE IF layer = 1 THEN
                 StepMoves(from_idx, board, color, 0, row, col, here, AMBIGUOUS)
                 \o StepMoves(from_idx, board, color, 2, row, col, here, AMBIGUOUS)
            ELSE IF layer = 2 THEN StepMoves(from_idx, board, color, 1, row, col, here, AMBIGUOUS)
            ELSE <<>>)

generate_mage_moves(pos, board, color) ==
    LET layer == pos[1]
        row == pos[2]
        col == pos[3]
        from_idx == pos_to_index(layer, row, col)
        here == << <<0, 0>> >>
    IN  IF layer = 1 THEN
            SlideMoves(from_idx, board, color, layer, row, col, KingOffsets)
            \o StepMoves(from_idx, board, color, layer - 1, row, col, here, AMBIGUOUS)
            \o StepMoves(from_idx, board, color, layer + 1, row, col, here, AMBIGUOUS)
        ELSE StepMoves(from_idx, board, color, layer, row, col,
                       << <<0, 1>>, <<0, -1>>, <<1, 0>>, <<-1, 0>> >>, AMBIGUOUS)
             \o StepMoves(from_idx, board, color, layer, row, col,
                          << <<-2, 0>>, <<-1, 0>>, <<1, 0>>, <<2, 0>> >>, AMBIGUOUS)

generate_king_moves(pos, board, color) ==
    LET layer == pos[1]
        row == pos[2]
        col == pos[3]
        from_idx == pos_to_index(layer, row, col)
        here == << <<0, 0>> >>
    IN  IF layer = 1 THEN
            StepMoves(from_idx, board, color, layer, row, col, KingOffsets, AMBIGUOUS)
            \o StepMoves(from_idx, board, color, layer - 1, row, col, here, AMBIGUOUS)
            \o StepMoves(from_idx, board, color, layer + 1, row, col, here, AMBIGUOUS)
        ELSE StepMoves(from_idx, board, color, 1, row, col, here, AMBIGUOUS)

\* for d_layer in (-2,-1,1,2): for d_row in (-2..2): for d_col in (-2..2):
\* sorted(|d_layer|, |d_row|, |d_col|) == [0, 1, 2]
ThreeDOffsets ==
    LET dls == <<-2, -1, 1, 2>>
        ds  == <<-2, -1, 0, 1, 2>>
    IN  SelectSeq([k \in 1 .. 100 |->
                      <<dls[((k - 1) \div 25) + 1],
                        ds[(((k - 1) % 25) \div 5) + 1],
                        ds[((k - 1) % 5) + 1]>>],
                  LAMBDA o : {Abs(o[1]), Abs(o[2]), Abs(o[3])} = {0, 1, 2})

ThreeDMoves(from_idx, board, color, layer, row, col) ==
    Flatten([k \in 1 .. Len(ThreeDOffsets) |->
        LET new_layer == layer + ThreeDOffsets[k][1]
            new_row == row + ThreeDOffsets[k][2]
            new_col == col + ThreeDOffsets[k][3]
        IN  IF in_bounds(new_layer, new_row, new_col)
               /\ EmptyOrEnemy(board, color, pos_to_index(new_layer, new_row, new_col))
            THEN << <<from_idx, pos_to_index(new_layer, new_row, new_col), THREED>> >>
            ELSE <<>>])

generate_paladin_moves(pos, board, color) ==
    LET layer == pos[1]
        row == pos[2]
        col == pos[3]
        from_idx == pos_to_index(layer, row, col)
    IN  (IF layer = 1 THEN
            StepMoves(from_idx, board, color, layer, row, col, KingOffsets, AMBIGUOUS)
            \o StepMoves(from_idx, board, color, layer, row, col, KnightOffsets, AMBIGUOUS)
         ELSE StepMoves(from_idx, board, color, layer, row, col, KingOffsets, AMBIGUOUS))
        \o ThreeDMoves(from_idx, board, color, layer, row, col)

\* the diagonal-forward captures of Warrior and Dwarf
ForwardCaptures(from_idx, board, color, layer, new_row, col) ==
    Flatten([k \in 1 .. 2 |->
        LET new_col == col + <<-1, 1>>[k]
        IN  IF in_bounds(layer, new_row, new_col)
               /\ board[pos_to_index(layer, new_row, new_col)] # 0
               /\ Enemy(board, color, pos_to_index(layer, new_row, new_col))
            THEN << <<from_idx, pos_to_index(layer, new_row, new_col), CAPTURE>> >>
            ELSE <<>>])

\* QuietStep without the test that the square is empty
QuietStepOntoAny(from_idx, board, layer, row, col) ==
    IF in_bounds(layer, row, col)
    THEN << <<from_idx, pos_to_index(layer, row, col), QUIET>> >>
    ELSE <<>>

\* a quiet step onto (layer, row, col) when that square is in bounds and empty
QuietStep(from_idx, board, layer, row, col) ==
    IF in_bounds(layer, row, col) /\ board[pos_to_index(layer, row, col)] = 0
    THEN << <<from_idx, pos_to_index(layer, row, col), QUIET>> >>
    ELSE <<>>

generate_warrior_moves(pos, board, color) ==
    LET layer == pos[1]
        row == pos[2]
        col == pos[3]
        from_idx == pos_to_index(layer, row, col)
        new_row == row + Direction(color)
    IN  IF layer # 1 THEN <<>>
        ELSE QuietStep(from_idx, board, layer, new_row, col)
             \o ForwardCaptures(from_idx, board, color, layer, new_row, col)

generate_basilisk_moves(pos, board, color) ==
    LET layer == pos[1]
        row == pos[2]
        col == pos[3]
        from_idx == pos_to_index(layer, row, col)
        direction == Direction(color)
    IN  IF layer # 2 THEN <<>>
        ELSE Flatten([k \in 1 .. 3 |->
                LET new_col == col + <<0, -1, 1>>[k]
                IN  IF in_bounds(layer, row + direction, new_col)
                       /\ board[pos_to_index(layer, row + direction, new_col)] # 0
                       /\ Enemy(board, color, pos_to_index(layer, row + direction, new_col))
                    THEN << <<from_idx, pos_to_index(layer, row + direction, new_col), AMBIGUOUS>> >>
                    ELSE <<>>])
             \o QuietStep(from_idx, board, layer, row - direction, col)

OrthOffsets == << <<1, 0>>, <<-1, 0>>, <<0, 1>>, <<0, -1>> >>

\* bottom layer, one direction: the dist = 1 and dist = 2 squares with the
\* breaks of the inner loop
ElementalReach(from_idx, board, color, layer, row, col, dr, dc) ==
    LET to1 == pos_to_index(layer, row + dr, col + dc)
        to2 == pos_to_index(layer, row + 2 * dr, col + 2 * dc)
    IN  IF ~in_bounds(layer, row + dr, col + dc) THEN <<>>
        ELSE IF ~EmptyOrEnemy(board, color, to1) THEN <<>>
        ELSE << <<from_idx, to1, AMBIGUOUS>> >>
             \o (IF ~in_bounds(layer, row + 2 * dr, col + 2 * dc) THEN <<>>
                 ELSE IF board[to1] # 0 THEN <<>>
                 ELSE IF EmptyOrEnemy(board, color, to2)
                      THEN << <<from_idx, to2, AMBIGUOUS>> >>
                      ELSE <<>>)

generate_elemental_moves(pos, board, color) ==
    LET layer == pos[1]
        row == pos[2]
        col == pos[3]
        from_idx == pos_to_index(layer, row, col)
    IN  IF layer = 2 THEN
            Flatten([k \in 1 .. Len(OrthOffsets) |->
                ElementalReach(from_idx, board, color, layer, row, col,
                               OrthOffsets[k][1], OrthOffsets[k][2])])
            \o Flatten([k \in 1 .. Len(DiagOffsets) |->
                QuietStep(from_idx, board, layer,
                          row + DiagOffsets[k][1], col + DiagOffsets[k][2])])
            \o Flatten([k \in 1 .. Len(OrthOffsets) |->
                LET ir == row + OrthOffsets[k][1]
                    ic == col + OrthOffsets[k][2]
                IN  IF in_bounds(layer, ir, ic) /\ board[pos_to_index(layer, ir, ic)] = 0
                    THEN << <<from_idx, pos_to_index(1, ir, ic), CAPTURE>> >>
                    ELSE <<>>])
        ELSE IF layer = 1 THEN
            Flatten([k \in 1 .. Len(OrthOffsets) |->
                LET ir == row + OrthOffsets[k][1]
                    ic == col + OrthOffsets[k][2]
                    to_idx == pos_to_index(2, ir, ic)
                IN  IF in_bounds(layer, ir, ic) /\ board[pos_to_index(layer, ir, ic)] = 0
                    THEN IF board[to_idx] = 0
                         THEN << <<from_idx, to_idx, QUIET>> >>
                         ELSE IF Enemy(board, color, to_idx)
                              THEN << <<from_idx, to_idx, CAPTURE>> >>
                              ELSE <<>>
                    ELSE <<>>])
        ELSE <<>>

generate_dwarf_moves(pos, board, color) ==
    LET layer == pos[1]
        row == pos[2]
        col == pos[3]
        from_idx == pos_to_index(layer, row, col)
        direction == Direction(color)
        new_row == row + direction
    IN  IF layer \notin {1, 2} THEN <<>>
        ELSE QuietStep(from_idx, board, layer, new_row, col)
             \o QuietStep(from_idx, board, layer, row, col - 1)
             \o QuietStep(from_idx, board, layer, row, col + 1)
             \o ForwardCaptures(from_idx, board, color, layer, new_row, col)
             \o (IF layer = 2 /\ in_bounds(1, row, col)
                    /\ board[pos_to_index(1, row, col)] # 0
                    /\ Enemy(board, color, pos_to_index(1, row, col))
                 THEN << <<from_idx, pos_to_index(1, row, col), CAPTURE>> >>
                 ELSE <<>>)
             \o (IF layer = 1 THEN QuietStep(from_idx, board, 2, row, col) ELSE <<>>)
             \o (IF ~in_bounds(layer, row + direction, col)
                 THEN QuietStep(from_idx, board, layer, row - direction, col)
                 ELSE <<>>)

-----------------------------------------------------------------------------
(* game.py : move_generators table, Game.get_all_moves                      *)

move_generators(abs_code, pos, board, color) ==
    CASE abs_code = 1  -> generate_sylph_moves(pos, board, color)
      [] abs_code = 2  -> generate_griffin_moves(pos, board, color)
      [] abs_code = 3  -> generate_dragon_moves(pos, board, color)
      [] abs_code = 4  -> generate_oliphant_moves(pos, board, color)
      [] abs_code = 5  -> generate_unicorn_moves(pos, board, color)
      [] abs_code = 6  -> generate_hero_moves(pos, board, color)
      [] abs_code = 7  -> generate_thief_moves(pos, board, color)
      [] abs_code = 8  -> generate_cleric_moves(pos, board, color)
      [] abs_code = 9  -> generate_mage_moves(pos, board, color)
      [] abs_code = 10 -> generate_king_moves(pos, board, color)
      [] abs_code = 11 -> generate_paladin_moves(pos, board, color)
      [] abs_code = 12 -> generate_warrior_moves(pos, board, color)
      [] abs_code = 13 -> generate_basilisk_moves(pos, board, color)
      [] abs_code = 14 -> generate_elemental_moves(pos, board, color)
      [] abs_code = 15 -> generate_dwarf_moves(pos, board, color)
      [] OTHER -> <<>>

Friendly(board, color, idx) ==
    \/ color = "Gold" /\ board[idx] > 0
    \/ color = "Scarlet" /\ board[idx] < 0

\* KeepMove without the second test of the CAPTURE / AFAR branch
KeepMoveAnyOccupied(board, color, move) ==
    LET to_idx == move[2]
        flag == move[3]
    IN  IF flag = QUIET THEN board[to_idx] = 0
        ELSE IF flag = AMBIGUOUS
             THEN ~(board[to_idx] # 0 /\ Friendly(board, color, to_idx))
        ELSE IF flag \in {CAPTURE, AFAR}
             THEN board[to_idx] # 0
        ELSE TRUE

\* the per-flag filter of get_all_moves: TRUE when the candidate is kept
KeepMove(board, color, move) ==
    LET to_idx == move[2]
        flag == move[3]
    IN  IF flag = QUIET THEN board[to_idx] = 0
        ELSE IF flag = AMBIGUOUS
             THEN ~(board[to_idx] # 0 /\ Friendly(board, color, to_idx))
        ELSE IF flag \in {CAPTURE, AFAR}
             THEN board[to_idx] # 0 /\ ~Friendly(board, color, to_idx)
        ELSE TRUE

\* the filtered candidates of the piece on idx, empty when idx is empty or
\* holds a piece of the other side
MovesFromIndex(board, color, idx) ==
    IF board[idx] # 0 /\ Friendly(board, color, idx)
    THEN SelectSeq(move_generators(Abs(board[idx]), index_to_pos(idx), board, color),
                   LAMBDA m : KeepMove(board, color, m))
    ELSE <<>>

get_all_moves(board, color) ==
    Flatten([k \in 1 .. TOTAL_SQUARES |-> MovesFromIndex(board, color, k - 1)])

-----------------------------------------------------------------------------
(* game.py : notation, position hash                                        *)

\* Other without the flip: the same side moves again
SameSide(color) == color

Other(color) == IF color = "Scarlet" THEN "Gold" ELSE "Scarlet"

UpperLetters == <<"S", "G", "R", "O", "U", "H", "T", "C", "M", "K", "P", "W", "B", "E", "D">>
LowerLetters == <<"s", "g", "r", "o", "u", "h", "t", "c", "m", "k", "p", "w", "b", "e", "d">>

piece_letter(piece) ==
    IF piece > 0
    THEN (IF piece \in 1 .. 15 THEN UpperLetters[piece] ELSE "?")
    ELSE (IF -piece \in 1 .. 15 THEN LowerLetters[-piece] ELSE "?")

FileLetters == <<"a", "b", "c", "d", "e", "f", "g", "h", "i", "j", "k", "l">>

\* "<board_num><file_letter><rank>", kept as its three parts
index_to_algebraic(idx) ==
    LET pos == index_to_pos(idx)
    IN  <<pos[1] + 1, FileLetters[pos[3] + 1], BOARD_ROWS - pos[2]>>

\* "<letter><from><sep><to>", kept as its four parts
move_to_algebraic(move, moving_piece) ==
    <<piece_letter(moving_piece),
      index_to_algebraic(move[1]),
      IF move[3] = CAPTURE \/ move[3] = AFAR THEN "x" ELSE "-",
      index_to_algebraic(move[2])>>

\* sha256(board.tobytes() + turn.encode()): the digest stands for its preimage
board_state_hash(b, turn) == <<b, turn>>

-----------------------------------------------------------------------------
(* The state of one Game object, and of its callers                         *)

VARIABLES
    board,            \* Game.board: piece code per cell
    current_turn,     \* Game.current_turn: "Gold" or "Scarlet"
    state_history,    \* Game.state_history: position hashes
    game_log,         \* Game.game_log: applied moves
    move_notations,   \* Game.move_notations
    no_capture_count, \* Game.no_capture_count
    game_over,        \* Game.game_over
    winner,           \* Game.winner: "None", "Gold", "Scarlet" or "Draw"
    frozen,           \* Game.frozen: BOOLEAN per cell
    last_call,        \* the method that ran last: "init", "make_move", "update"
    raised,           \* TRUE when the last make_move raised ValueError
    last_move,        \* the argument of make_move when it ran last, else <<>>
    ply_limit         \* how many moves the callers apply to this Game

VARIABLES
    transposition_table, \* evolve_dragonfish.transposition_table: key -> <<depth, val, move>>
    written_by,          \* for each key of transposition_table, the number of the
                         \* choose_move call that stored its entry
    searches,            \* how many CMAESBot.choose_move calls have run in this process
    search,              \* what the last CMAESBot.choose_move call did and returned
    bot,                 \* the CMAESBot playing this Game: color, max_depth, weights
    probe                \* the last call of a function of bitboard.py or moves.py made
                         \* outside a Game: its name, arguments and result

gameVars == <<board, current_turn, state_history, game_log, move_notations,
              no_capture_count, game_over, winner, frozen>>

searchVars == <<transposition_table, written_by, searches, search, bot>>

vars == <<board, current_turn, state_history, game_log, move_notations,
          no_capture_count, game_over, winner, frozen, last_call, raised, last_move,
          ply_limit, transposition_table, written_by, searches, search, bot, probe>>

DRAW_LIMIT == 250

\* how many moves are applied to a Game that starts from the initial layout,
\* and to one that starts from a set-up position
OpeningPly == 1
MaxPly == 2

-----------------------------------------------------------------------------
(* Positions set up on a new Game by assigning cells of game.board, as      *)
(* test.py does; <<layer, row, col, piece>>                                 *)

\* a king hunt: the Scarlet King can be taken by a THREED jump (Paladin), a
\* CAPTURE (Warrior) and an AMBIGUOUS step (Hero); the Gold King by the
\* AMBIGUOUS step of a Griffin
KingHuntBoard ==
    PlaceAll(EmptyBoard,
        << <<0, 7, 11, 10>>, <<0, 0, 0, 11>>, <<1, 3, 1, 12>>, <<2, 3, 1, 6>>,
           <<1, 2, 0, -10>>, <<1, 6, 10, -2>> >>)

\* Basilisks under enemy pieces (test_frozen_piece_update), a Dragon above one
\* of them, both Kings aside
FreezeBoard ==
    PlaceAll(EmptyBoard,
        << <<0, 7, 0, 10>>, <<1, 3, 3, 12>>, <<2, 6, 11, 13>>, <<0, 7, 11, 3>>,
           <<0, 0, 11, -10>>, <<2, 3, 3, -13>>, <<1, 6, 11, -15>> >>)

\* Game() with board and no_capture_count assigned; limit is the number of
\* moves the callers apply to it
AssignedGame(b, count, limit) ==
    [board |-> b, no_capture_count |-> count, game_log |-> <<>>,
     move_notations |-> <<>>, state_history |-> <<>>,
     frozen |-> [i \in Cells |-> FALSE], last_call |-> "init", ply_limit |-> limit]

AssignedSetups ==
    { AssignedGame(create_initial_board, 0, OpeningPly),
      AssignedGame(KingHuntBoard, DRAW_LIMIT - 2, MaxPly),
      AssignedGame(FreezeBoard, 0, MaxPly) }

-----------------------------------------------------------------------------
(* game.py : Game.make_move                                                 *)

\* IllegalMove with the test made against the other side
IllegalMoveOnEnemy(b, move) ==
    LET moving_piece == b[move[1]]
        target_piece == b[move[2]]
    IN  target_piece # 0
        /\ ((moving_piece > 0 /\ target_piece < 0) \/ (moving_piece < 0 /\ target_piece > 0))

\* the friendly-destination test that raises ValueError
IllegalMove(b, move) ==
    LET moving_piece == b[move[1]]
        target_piece == b[move[2]]
    IN  target_piece # 0
        /\ ((moving_piece > 0 /\ target_piece > 0) \/ (moving_piece < 0 /\ target_piece < 0))

capture_occurred(b, move) == move[3] \in {CAPTURE, AFAR} /\ b[move[2]] # 0

\* BoardAfter with the captured piece put back on the source cell
BoardAfterSwap(b, move) == [b EXCEPT ![move[2]] = b[move[1]], ![move[1]] = b[move[2]]]

\* BoardAfter without board[from_idx] = 0
BoardAfterCopy(b, move) == [b EXCEPT ![move[2]] = b[move[1]]]

BoardAfter(b, move) == [b EXCEPT ![move[2]] = b[move[1]], ![move[1]] = 0]

CountAfter(b, count, move) == IF capture_occurred(b, move) THEN 0 ELSE count + 1

\* the assignments of a make_move that does not raise
MakeMoveEffect(move) ==
    /\ move_notations' = Append(move_notations, move_to_algebraic(move, board[move[1]]))
    /\ game_log' = Append(game_log, move)
    /\ board' = BoardAfter(board, move)
    /\ no_capture_count' = CountAfter(board, no_capture_count, move)
    /\ state_history' = Append(state_history, board_state_hash(board', current_turn))
    /\ current_turn' = Other(current_turn)

make_move(move) ==
    /\ last_call' = "make_move"
    /\ last_move' = move
    /\ IF IllegalMove(board, move)
       THEN /\ raised' = TRUE
            /\ UNCHANGED <<board, current_turn, state_history, game_log,
                           move_notations, no_capture_count>>
       ELSE /\ Len(game_log) < ply_limit
            /\ raised' = FALSE
            /\ MakeMoveEffect(move)
    /\ UNCHANGED <<game_over, winner, frozen, ply_limit, searchVars, probe>>

-----------------------------------------------------------------------------
(* game.py : Game.update                                                    *)

\* frozen[:] = False, then one pass over the bottom layer
BasiliskHits(b) ==
    {pos_to_index(1, rc[1], rc[2]) :
        rc \in {x \in (0 .. BOARD_ROWS - 1) \X (0 .. BOARD_COLS - 1) :
                  LET piece == b[pos_to_index(2, x[1], x[2])]
                      target == b[pos_to_index(1, x[1], x[2])]
                  IN  (piece = 13 \/ piece = -13)
                      /\ target # 0 /\ target * piece < 0}}

\* FrozenAfter without frozen[:] = False
FrozenAfterKept(b) ==
    LET hits == BasiliskHits(b)
    IN  [i \in Cells |-> frozen[i] \/ i \in hits]

FrozenAfter(b) ==
    LET hits == BasiliskHits(b)
    IN  [i \in Cells |-> i \in hits]

gold_king_exists(b) == \E idx \in Cells : b[idx] = 10

\* scarlet_king_exists looking for the Gold King's code
scarlet_king_exists_sign(b) == \E idx \in Cells : b[idx] = 10

scarlet_king_exists(b) == \E idx \in Cells : b[idx] = -10

\* game_over and winner after the three tests, made in the order of the code
\* GameOverAfter with the draw by count switching game_over instead of setting it
GameOverAfterSwitched(b, count, over) ==
    LET over1 == IF count >= DRAW_LIMIT THEN ~over ELSE over
    IN  IF ~gold_king_exists(b) THEN TRUE
        ELSE IF ~scarlet_king_exists(b) THEN TRUE
        ELSE over1

GameOverAfter(b, count, over) ==
    LET over1 == IF count >= DRAW_LIMIT THEN TRUE ELSE over
    IN  IF ~gold_king_exists(b) THEN TRUE
        ELSE IF ~scarlet_king_exists(b) THEN TRUE
        ELSE over1

\* WinnerAfter as an if / elif / elif chain: the draw test first
WinnerAfterDrawFirst(b, count, w) ==
    IF count >= DRAW_LIMIT THEN "Draw"
    ELSE IF ~gold_king_exists(b) THEN "Scarlet"
    ELSE IF ~scarlet_king_exists(b) THEN "Gold"
    ELSE w

\* WinnerAfter without the assignment of "Draw"
WinnerAfterNoDraw(b, count, w) ==
    IF ~gold_king_exists(b) THEN "Scarlet"
    ELSE IF ~scarlet_king_exists(b) THEN "Gold"
    ELSE w

WinnerAfter(b, count, w) ==
    LET w1 == IF count >= DRAW_LIMIT THEN "Draw" ELSE w
    IN  IF ~gold_king_exists(b) THEN "Scarlet"
        ELSE IF ~scarlet_king_exists(b) THEN "Gold"
        ELSE w1

UpdateEffect(b, count) ==
    /\ frozen' = FrozenAfter(b)
    /\ game_over' = GameOverAfter(b, count, game_over)
    /\ winner' = WinnerAfter(b, count, winner)

update ==
    /\ last_call' = "update"
    /\ raised' = FALSE
    /\ last_move' = <<>>
    /\ UpdateEffect(board, no_capture_count)
    /\ UNCHANGED <<board, current_turn, state_history, game_log, move_notations,
                   no_capture_count, ply_limit, searchVars, probe>>

-----------------------------------------------------------------------------
(* A game played from the initial layout by the loop of simulation.py       *)

\* the moves of a game in which Gold takes every Scarlet piece but the King
\* and one Warrior, then the Scarlet King goes to the top layer on the far
\* row and the Warrior steps under it
BlockedGame ==
    <<
       <<90, 12, 3>>, <<10, 44, 3>>, <<12, 108, 2>>, <<44, 10, 3>>, <<86, 52, 3>>, <<10, 44, 3>>,
       <<52, 18, 3>>, <<44, 10, 3>>, <<18, 101, 3>>, <<10, 44, 3>>, <<101, 112, 3>>, <<44, 10, 3>>,
       <<112, 99, 3>>, <<10, 44, 3>>, <<99, 110, 3>>, <<44, 10, 3>>, <<110, 97, 3>>, <<10, 44, 3>>,
       <<97, 14, 3>>, <<44, 10, 3>>, <<14, 41, 3>>, <<10, 44, 3>>, <<41, 20, 3>>, <<44, 10, 3>>,
       <<20, 103, 3>>, <<10, 44, 3>>, <<103, 114, 3>>, <<44, 10, 3>>, <<94, 56, 3>>, <<10, 44, 3>>,
       <<56, 22, 3>>, <<44, 10, 3>>, <<22, 105, 3>>, <<10, 44, 3>>, <<105, 116, 3>>, <<44, 10, 3>>,
       <<114, 101, 3>>, <<10, 44, 3>>, <<101, 16, 3>>, <<44, 10, 3>>, <<116, 105, 3>>, <<10, 44, 3>>,
       <<105, 118, 3>>, <<44, 10, 3>>, <<118, 107, 3>>, <<10, 44, 3>>, <<16, 54, 3>>, <<44, 10, 3>>,
       <<54, 33, 3>>, <<10, 44, 3>>, <<33, 6, 3>>, <<44, 10, 3>>, <<6, 113, 3>>, <<10, 44, 3>>,
       <<113, 100, 3>>, <<44, 10, 3>>, <<100, 15, 3>>, <<10, 44, 3>>, <<15, 98, 3>>, <<44, 10, 3>>,
       <<98, 109, 3>>, <<10, 44, 3>>, <<109, 96, 3>>, <<44, 10, 3>>, <<96, 109, 3>>, <<10, 44, 3>>,
       <<109, 2, 3>>, <<44, 10, 3>>, <<2, 40, 3>>, <<10, 44, 3>>, <<40, 6, 3>>, <<44, 10, 3>>,
       <<6, 115, 3>>, <<10, 44, 3>>, <<115, 104, 3>>, <<44, 10, 3>>, <<104, 117, 3>>, <<10, 44, 3>>,
       <<117, 106, 3>>, <<44, 10, 3>>, <<106, 119, 3>>, <<10, 44, 3>>, <<187, 164, 3>>, <<44, 10, 3>>,
       <<164, 141, 3>>, <<10, 44, 3>>, <<141, 213, 4>>, <<44, 10, 3>>, <<213, 202, 3>>, <<10, 44, 3>>,
       <<202, 215, 3>>, <<44, 10, 3>>, <<215, 117, 4>>, <<10, 44, 3>>, <<117, 211, 4>>, <<44, 10, 3>>,
       <<211, 198, 3>>, <<10, 44, 3>>, <<198, 209, 3>>, <<44, 10, 3>>, <<209, 196, 3>>, <<10, 44, 3>>,
       <<196, 207, 3>>, <<44, 10, 3>>, <<207, 194, 3>>, <<10, 44, 3>>, <<194, 205, 3>>, <<44, 10, 3>>,
       <<119, 10, 3>>, <<102, 101, 3>>, <<10, 44, 3>>, <<101, 112, 3>>, <<44, 10, 3>>, <<111, 123, 0>>,
       <<10, 44, 3>>, <<112, 124, 3>>, <<44, 10, 3>>, <<123, 135, 0>>, <<10, 44, 3>>, <<124, 136, 3>>,
       <<44, 10, 3>>, <<135, 147, 0>>, <<10, 44, 3>>, <<136, 148, 3>>, <<44, 10, 3>>, <<147, 159, 0>>,
       <<10, 44, 3>>, <<148, 160, 3>>, <<44, 10, 3>>, <<159, 170, 1>>, <<10, 44, 3>>, <<160, 171, 3>>,
       <<44, 10, 3>>, <<171, 182, 3>>, <<10, 44, 3>>, <<182, 86, 3>>, <<44, 10, 3>>, <<170, 182, 0>>
    >>

\* <<board, no_capture_count>> after make_move(move) on <<board, no_capture_count>>
PlayedMove(st, move) == <<BoardAfter(st[1], move), CountAfter(st[1], st[2], move)>>

\* the states after make_move on moves[lo], then on moves[lo + 1], ..., then
\* on moves[hi]: the first half is played and its states bound as a value,
\* then the second half is played from the last of them
RECURSIVE PlayRange(_, _, _, _)
PlayRange(st, moves, lo, hi) ==
    IF lo > hi THEN <<>>
    ELSE IF lo = hi THEN <<PlayedMove(st, moves[lo])>>
    ELSE LET mid == (lo + hi) \div 2
         IN  CHOOSE states \in {half \o PlayRange(half[Len(half)], moves, mid + 1, hi) :
                                   half \in {PlayRange(st, moves, lo, mid)}} : TRUE

TurnAfterPly(k) == IF k % 2 = 0 THEN "Gold" ELSE "Scarlet"

\* <<board, no_capture_count>> after each move of BlockedGame
BlockedGameStates == PlayRange(<<create_initial_board, 0>>, BlockedGame, 1, Len(BlockedGame))

\* <<board, no_capture_count>> after the first k moves, states being
\* BlockedGameStates
AfterPly(states, k) == IF k = 0 THEN <<create_initial_board, 0>> ELSE states[k]

\* every move of the game is in get_all_moves when it is played (among the
\* moves that get_all_moves collects for its source cell), and the update
\* that follows it leaves game_over False: the loop goes on
BlockedGameInLoop(states) ==
    \A k \in 1 .. Len(BlockedGame) :
        /\ BlockedGame[k] \in SeqToSet(MovesFromIndex(AfterPly(states, k - 1)[1],
                                                     TurnAfterPly(k - 1), BlockedGame[k][1]))
        /\ ~GameOverAfter(states[k][1], states[k][2], FALSE)

\* the position the game ends in: Scarlet's King and Warrior cannot move
BlockedBoard == BlockedGameStates[Len(BlockedGame)][1]

\* the Game after the last pass of the loop on BlockedGame
PlayedGame(states) ==
    [board |-> states[Len(BlockedGame)][1],
     no_capture_count |-> states[Len(BlockedGame)][2],
     game_log |-> BlockedGame,
     move_notations |->
        [k \in 1 .. Len(BlockedGame) |->
            move_to_algebraic(BlockedGame[k], AfterPly(states, k - 1)[1][BlockedGame[k][1]])],
     state_history |->
        [k \in 1 .. Len(BlockedGame) |->
            board_state_hash(states[k][1], TurnAfterPly(k - 1))],
     frozen |-> [i \in Cells |-> i \in BasiliskHits(states[Len(BlockedGame)][1])],
     last_call |-> "update",
     ply_limit |-> Len(BlockedGame) + MaxPly]

\* the Games that the actions start from
Setups ==
    AssignedSetups
    \cup UNION {IF BlockedGameInLoop(states) THEN {PlayedGame(states)} ELSE {} :
                  states \in {BlockedGameStates}}

\* Game.__init__, then the set-up or the moves played
GameStarts(s) ==
    /\ board = s.board
    /\ current_turn = TurnAfterPly(Len(s.game_log))
    /\ state_history = s.state_history
    /\ game_log = s.game_log
    /\ move_notations = s.move_notations
    /\ no_capture_count = s.no_capture_count
    /\ game_over = FALSE
    /\ winner = "None"
    /\ frozen = s.frozen
    /\ last_call = s.last_call
    /\ raised = FALSE
    /\ last_move = <<>>
    /\ ply_limit = s.ply_limit

\* no bot plays
NoBot ==
    [color |-> "None", color_flag |-> 0, max_depth |-> 0,
     weights_mg |-> <<>>, weights_eg |-> <<>>]

\* no search has run
NoSearch ==
    [id |-> 0, best_eval |-> <<>>, best_move |-> <<>>, completed |-> <<>>,
     aborted |-> 0, started |-> <<>>, hits |-> {}, ignored |-> {},
     given |-> <<>>, left |-> <<>>]

\* no call outside a Game has been made
NoProbe == [function |-> "None", arguments |-> <<>>, result |-> <<>>, returned |-> FALSE]

\* the module as imported, before any search
ModuleImported ==
    /\ transposition_table = <<>>
    /\ written_by = <<>>
    /\ searches = 0
    /\ search = NoSearch

Init ==
    /\ \E s \in Setups : GameStarts(s)
    /\ ModuleImported
    /\ bot = NoBot
    /\ probe = NoProbe

-----------------------------------------------------------------------------
(* The callers of a Game                                                    *)

\* moves that a caller passes without asking get_all_moves: from the cell of
\* the Warrior of KingHuntBoard, while a piece stands there, to the cell of
\* its Hero, under every flag
ProbeMoves ==
    {move \in {<<pos_to_index(1, 3, 1), pos_to_index(2, 3, 1), flag>> : flag \in Flags} :
        board[move[1]] # 0}

\* any caller: make_move with a move of get_all_moves or with another move,
\* and update, in any order (main.py calls update once per frame)
Next ==
    \/ \E move \in SeqToSet(get_all_moves(board, current_turn)) \cup ProbeMoves :
           make_move(move)
    \/ update

Spec == Init /\ [][Next]_vars

\* simulation.py, simulate_ai_vs_ai_game: one pass of
\*   while not game.game_over: move = choose_move(); if move: make_move(move); update()
\* choose_move (ai.py) returns any move of get_all_moves, or None when there is none.
\* The pass in which choose_move returned a move:
HarnessMove ==
    /\ ~game_over
    /\ ~raised
    /\ Len(game_log) < ply_limit
    /\ \E move \in SeqToSet(get_all_moves(board, current_turn)) :
          IF IllegalMove(board, move)
          THEN /\ raised' = TRUE
               /\ last_call' = "make_move"
               /\ last_move' = move
               /\ UNCHANGED <<board, current_turn, state_history, game_log,
                              move_notations, no_capture_count,
                              game_over, winner, frozen>>
          ELSE /\ raised' = FALSE
               /\ last_call' = "update"
               /\ last_move' = <<>>
               /\ MakeMoveEffect(move)
               /\ UpdateEffect(board', no_capture_count')
    /\ UNCHANGED <<ply_limit, searchVars, probe>>

\* The pass in which choose_move returned None: update alone
HarnessPass ==
    /\ ~game_over
    /\ ~raised
    /\ get_all_moves(board, current_turn) = <<>>
    /\ raised' = FALSE
    /\ last_call' = "update"
    /\ last_move' = <<>>
    /\ UpdateEffect(board, no_capture_count)
    /\ UNCHANGED <<board, current_turn, state_history, game_log,
                   move_notations, no_capture_count, ply_limit, searchVars, probe>>

HarnessNext == HarnessMove \/ HarnessPass

HarnessSpec == Init /\ [][HarnessNext]_vars

-----------------------------------------------------------------------------
(* evolve_dragonfish.py : the search of CMAESBot                            *)

\* a state of the search is <<board, turn_flag>>, turn_flag 1 for Gold and -1
\* for Scarlet; None is <<>>
ColorName(flag) == IF flag = 1 THEN "Gold" ELSE "Scarlet"

ColorFlag(color) == IF color = "Gold" THEN 1 ELSE -1

hash_state(state) == board_state_hash(state[1], ColorName(state[2]))

\* SearchKeepMove without the test for a friendly piece on the destination of
\* a CAPTURE or AFAR candidate
SearchKeepMoveAnyOccupied(b, color, move) ==
    LET to_idx == move[2]
        flag == move[3]
    IN  IF flag = QUIET THEN b[to_idx] = 0
        ELSE IF flag \in {CAPTURE, AFAR} THEN b[to_idx] # 0
        ELSE TRUE

\* the per-flag filter of the search's own get_all_moves: AMBIGUOUS and
\* THREED candidates pass untested
SearchKeepMove(b, color, move) ==
    LET to_idx == move[2]
        flag == move[3]
    IN  IF flag = QUIET THEN b[to_idx] = 0
        ELSE IF flag \in {CAPTURE, AFAR}
             THEN b[to_idx] # 0 /\ ~(color * b[to_idx] > 0)
        ELSE TRUE

\* the filtered candidates of the piece on idx, for the side color
SearchMovesFromIndex(b, color, idx) ==
    IF b[idx] # 0 /\ color * b[idx] > 0
    THEN SelectSeq(move_generators(Abs(b[idx]), index_to_pos(idx), b, ColorName(color)),
                   LAMBDA m : SearchKeepMove(b, color, m))
    ELSE <<>>

\* CapturesFirst without the sort: the moves as generated
GenerationOrderKept(moves) == moves

\* moves.sort(key=...): a stable sort, CAPTURE and AFAR moves first
CapturesFirst(moves) ==
    SelectSeq(moves, LAMBDA m : m[3] \in {CAPTURE, AFAR})
    \o SelectSeq(moves, LAMBDA m : m[3] \notin {CAPTURE, AFAR})

\* search_get_all_moves listing the moves of the other side
search_get_all_moves_of_opponent(state, color) ==
    CapturesFirst(Flatten([k \in 1 .. TOTAL_SQUARES |->
                              SearchMovesFromIndex(state[1], -color, k - 1)]))

search_get_all_moves(state, color) ==
    CapturesFirst(Flatten([k \in 1 .. TOTAL_SQUARES |->
                              SearchMovesFromIndex(state[1], color, k - 1)]))

\* bots/dragonfish.py is not part of the sources: main_evaluation is a
\* material sum, weights_mg[t] for each Gold piece of type t and -weights_mg[t]
\* for each Scarlet one, a deterministic score of the position under a
\* parameter vector
RECURSIVE MaterialSum(_, _, _)
MaterialSum(b, cells, weights) ==
    IF cells = {} THEN 0
    ELSE LET i == CHOOSE c \in cells : TRUE
             value == IF b[i] > 0 THEN weights[b[i]] ELSE -weights[-b[i]]
         IN  value + MaterialSum(b, cells \ {i}, weights)

main_evaluation(pos, weights_mg, weights_eg) ==
    MaterialSum(pos.board, {i \in Cells : pos.board[i] # 0}, weights_mg)

evaluate_state(state, my_color, history, weights_mg, weights_eg) ==
    LET pos == [board |-> state[1], turn |-> ColorName(my_color),
                no_capture_count |-> Len(history)]
    IN  my_color * main_evaluation(pos, weights_mg, weights_eg)

\* simulate_move writing into the array it was given
simulate_move_in_place(state, move) ==
    LET new_board == [state[1] EXCEPT ![move[2]] = state[1][move[1]], ![move[1]] = 0]
    IN  [returned |-> <<new_board, -state[2]>>, argument |-> <<new_board, state[2]>>]

\* returned: the state simulate_move returns; argument: the state it was
\* called with, as the call leaves it (new_board is a copy: untouched)
simulate_move(state, move) ==
    LET new_board == [state[1] EXCEPT ![move[2]] = state[1][move[1]], ![move[1]] = 0]
    IN  [returned |-> <<new_board, -state[2]>>, argument |-> state]

\* math.inf: above every score of the evaluation
Infinity == 1000000

Max(x, y) == IF x >= y THEN x ELSE y
Min(x, y) == IF x <= y THEN x ELSE y

\* What a search carries from call to call.  mem.table and mem.writer are
\* transposition_table and written_by; mem.clock counts the alphabeta calls of
\* this search that passed the deadline test; mem.hits and mem.ignored record
\* the cache entries this search returned and passed over.
\* env holds what stays fixed during a search: env.expires and env.at say
\* whether, and after how many alphabeta calls, time.time() - start_time
\* exceeds time_limit; env.id numbers the choose_move call.

\* time.time() - start_time > time_limit
DeadlinePassed(mem, env) == env.expires /\ mem.clock >= env.at

\* the cache test without the comparison of depths
CacheHitAnyDepth(table, key, depth) == key \in DOMAIN table

\* key in transposition_table and cached_depth >= depth
CacheHit(table, key, depth) == key \in DOMAIN table /\ table[key][1] >= depth

\* transposition_table[key] = entry
Store(mem, env, key, entry) ==
    [mem EXCEPT !.table = (key :> entry) @@ @,
                !.writer = (key :> env.id) @@ @]

\* the cache look-up of one alphabeta call, recorded; iteration is the depth
\* iterative_deepening asked for
Looked(mem, key, depth, iteration) ==
    IF key \notin DOMAIN mem.table THEN mem
    ELSE LET cached == mem.table[key]
             seen == [requested |-> depth, stored |-> cached[1], val |-> cached[2],
                      move |-> cached[3], by |-> mem.writer[key],
                      iteration |-> iteration, key |-> <<>>]
         IN  IF CacheHit(mem.table, key, depth)
             THEN [mem EXCEPT !.hits = @ \cup {seen}]
             ELSE [mem EXCEPT !.ignored = @ \cup {[seen EXCEPT !.key = key]}]

\* how a call of alphabeta ends: raised is TRUE for TimeOutException, and then
\* val and move are max_eval / min_eval and best_move of the frame it left;
\* state is the state the call was given, as the call leaves it
Ended(timed_out, val, move, mem, state) ==
    [raised |-> timed_out, val |-> val, move |-> move, mem |-> mem, state |-> state]

RECURSIVE alphabeta(_, _, _, _, _, _, _, _, _, _)
RECURSIVE SearchChildren(_, _, _, _, _, _, _, _, _, _, _, _, _, _)

\* the for loop of alphabeta from moves[k] on, best_eval standing for
\* max_eval or min_eval
SearchChildren(state, moves, k, depth, alpha, beta, maximizingPlayer, my_color, history, current_depth, env, best_eval, best_move, mem) ==
    IF k > Len(moves) THEN Ended(FALSE, best_eval, best_move, mem, state)
    ELSE
      LET sim == simulate_move(state, moves[k])
          child == alphabeta(sim.returned, depth - 1, alpha, beta, ~maximizingPlayer,
                             my_color, history, current_depth + 1, env, mem)
          better == IF maximizingPlayer THEN child.val > best_eval
                                        ELSE child.val < best_eval
          new_eval == IF better THEN child.val ELSE best_eval
          new_move == IF better THEN moves[k] ELSE best_move
          new_alpha == IF maximizingPlayer THEN Max(alpha, child.val) ELSE alpha
          new_beta == IF maximizingPlayer THEN beta ELSE Min(beta, child.val)
      IN  IF child.raised
          THEN Ended(TRUE, best_eval, best_move, child.mem, sim.argument)
          ELSE IF new_beta <= new_alpha
          THEN Ended(FALSE, new_eval, new_move, child.mem, sim.argument)
          ELSE SearchChildren(sim.argument, moves, k + 1, depth, new_alpha, new_beta,
                              maximizingPlayer, my_color, history, current_depth, env,
                              new_eval, new_move, child.mem)

alphabeta(state, depth, alpha, beta, maximizingPlayer, my_color, history, current_depth, env, mem) ==
    IF DeadlinePassed(mem, env) THEN Ended(TRUE, <<>>, <<>>, mem, state)
    ELSE
      LET key == hash_state(state)
          entered == Looked([mem EXCEPT !.clock = @ + 1], key, depth,
                             depth + current_depth)
      IN  IF CacheHit(entered.table, key, depth)
          THEN Ended(FALSE, entered.table[key][2], entered.table[key][3], entered, state)
          ELSE
            LET moves == search_get_all_moves(state, state[2])
            IN  IF depth = 0 \/ moves = <<>>
                THEN LET eval_val == evaluate_state(state, my_color, history,
                                                    env.weights_mg, env.weights_eg)
                     IN  Ended(FALSE, eval_val, <<>>,
                               Store(entered, env, key, <<depth, eval_val, <<>> >>), state)
                ELSE LET loop == SearchChildren(state, moves, 1, depth, alpha, beta,
                                     maximizingPlayer, my_color, history, current_depth,
                                     env,
                                     IF maximizingPlayer THEN -Infinity ELSE Infinity,
                                     <<>>, entered)
                     IN  IF loop.raised THEN loop
                         ELSE Ended(FALSE, loop.val, loop.move,
                                    Store(loop.mem, env, key,
                                          <<depth, loop.val, loop.move>>),
                                    loop.state)

\* What iterative_deepening holds between depths: best_eval and best_move, the
\* <<eval_val, move>> of every depth that completed, the depth whose search
\* raised TimeOutException (0 when none did), the depths started, and mem.

\* DepthPass taking best_eval and best_move, after TimeOutException, from the
\* frame that was left when it holds a move
DepthPassKeepsPartial(held, depth, ended) ==
    IF ended.raised
    THEN [held EXCEPT !.aborted = depth,
                      !.best_eval = IF ended.move = <<>> THEN @ ELSE ended.val,
                      !.best_move = IF ended.move = <<>> THEN @ ELSE ended.move,
                      !.mem = ended.mem, !.state = ended.state]
    ELSE [held EXCEPT !.best_eval = ended.val, !.best_move = ended.move,
                      !.completed = Append(@, <<ended.val, ended.move>>),
                      !.mem = ended.mem, !.state = ended.state]

\* the body of the for loop once alphabeta has returned or raised
DepthPass(held, depth, ended) ==
    IF ended.raised
    THEN [held EXCEPT !.aborted = depth, !.mem = ended.mem, !.state = ended.state]
    ELSE [held EXCEPT !.best_eval = ended.val, !.best_move = ended.move,
                      !.completed = Append(@, <<ended.val, ended.move>>),
                      !.mem = ended.mem, !.state = ended.state]

RECURSIVE Deepen(_, _, _, _, _, _)
Deepen(held, depth, max_depth, my_color, history, env) ==
    IF depth > max_depth \/ held.aborted # 0 THEN held
    ELSE LET ended == alphabeta(held.state, depth, -Infinity, Infinity, TRUE, my_color,
                                history, 0, env, held.mem)
             started == [held EXCEPT !.started = Append(@, depth)]
         IN  Deepen(DepthPass(started, depth, ended), depth + 1, max_depth, my_color,
                    history, env)

iterative_deepening(state, max_depth, my_color, history, env, mem) ==
    Deepen([best_eval |-> <<>>, best_move |-> <<>>, completed |-> <<>>,
            aborted |-> 0, started |-> <<>>, mem |-> mem, state |-> state],
           1, max_depth, my_color, history, env)

-----------------------------------------------------------------------------
(* evolve_dragonfish.py : CMAESBot in the loop of simulate_game             *)

\* how many times choose_move of the bot is called, and the largest number of
\* alphabeta calls after which the deadline of a search passes
MaxSearches == 2
MaxFuel == 10

\* the piece values a parameter vector decodes to, by piece type
PieceValues == <<1, 5, 8, 5, 3, 5, 4, 9, 11, 100, 10, 1, 3, 4, 2>>

\* CMAESBot(game, "Gold", param_vector)
CMAESBot(color) ==
    [color |-> color, color_flag |-> ColorFlag(color), max_depth |-> 3,
     weights_mg |-> PieceValues, weights_eg |-> PieceValues]

\* two Warriors a side on the middle layer, within reach of each other; each
\* King on the top layer above a Basilisk of its side, so that neither moves
SearchBoard ==
    PlaceAll(EmptyBoard,
        << <<0, 7, 0, 10>>, <<1, 7, 0, 13>>, <<1, 4, 5, 12>>, <<1, 5, 3, 12>>,
           <<0, 0, 11, -10>>, <<1, 0, 11, -13>>, <<1, 2, 4, -12>>, <<1, 2, 6, -12>> >>)

\* SearchBoard with a Gold Unicorn a knight's jump from a Gold Warrior
UnicornBoard == PlaceAll(SearchBoard, << <<1, 6, 4, 5>> >>)

\* the Kings and Basilisks of SearchBoard, a Gold Warrior that after one step
\* can take a Scarlet Warrior or, on the square generated after it, a Scarlet
\* Basilisk
CutoffBoard ==
    PlaceAll(EmptyBoard,
        << <<0, 7, 0, 10>>, <<1, 7, 0, 13>>, <<1, 5, 6, 12>>, <<1, 4, 6, 12>>,
           <<0, 0, 11, -10>>, <<1, 0, 11, -13>>, <<1, 2, 5, -12>>, <<1, 3, 4, -12>>,
           <<1, 2, 7, -13>> >>)

SearchSetups ==
    { AssignedGame(SearchBoard, 0, 2 * MaxSearches),
      AssignedGame(UnicornBoard, 0, 2 * MaxSearches),
      AssignedGame(CutoffBoard, 0, 2 * MaxSearches) }

\* CMAESBot.choose_move: iterative_deepening on a copy of game.board
choose_move ==
    /\ ~game_over
    /\ ~raised
    /\ last_call # "choose_move"
    /\ current_turn = bot.color
    /\ searches < MaxSearches
    /\ \E expires \in BOOLEAN :
         \E at \in IF expires THEN 0 .. MaxFuel ELSE {0} :
           LET state == <<board, ColorFlag(current_turn)>>
               env == [expires |-> expires, at |-> at, id |-> searches + 1,
                       weights_mg |-> bot.weights_mg, weights_eg |-> bot.weights_eg]
               mem == [table |-> transposition_table, writer |-> written_by,
                       clock |-> 0, hits |-> {}, ignored |-> {}]
           IN  \E held \in {iterative_deepening(state, bot.max_depth, bot.color_flag,
                                                state_history, env, mem)} :
                 /\ transposition_table' = held.mem.table
                 /\ written_by' = held.mem.writer
                 /\ search' = [id |-> env.id, best_eval |-> held.best_eval,
                               best_move |-> held.best_move,
                               completed |-> held.completed, aborted |-> held.aborted,
                               started |-> held.started, hits |-> held.mem.hits,
                               ignored |-> held.mem.ignored,
                               given |-> state, left |-> held.state]
    /\ searches' = searches + 1
    /\ last_call' = "choose_move"
    /\ raised' = FALSE
    /\ last_move' = <<>>
    /\ UNCHANGED <<gameVars, ply_limit, bot, probe>>

\* simulate_game once choose_move of the bot has returned:
\*   if move: game.make_move(move)
\*   game.update()
BotApply ==
    /\ last_call = "choose_move"
    /\ IF search.best_move = <<>>
       THEN /\ raised' = FALSE
            /\ last_call' = "update"
            /\ last_move' = <<>>
            /\ UpdateEffect(board, no_capture_count)
            /\ UNCHANGED <<board, current_turn, state_history, game_log,
                           move_notations, no_capture_count>>
       ELSE IF IllegalMove(board, search.best_move)
       THEN /\ raised' = TRUE
            /\ last_call' = "make_move"
            /\ last_move' = search.best_move
            /\ UNCHANGED gameVars
       ELSE /\ raised' = FALSE
            /\ last_call' = "update"
            /\ last_move' = <<>>
            /\ MakeMoveEffect(search.best_move)
            /\ UpdateEffect(board', no_capture_count')
    /\ UNCHANGED <<ply_limit, searchVars, probe>>

\* simulate_game when it is the turn of RandomAI: choose_move of ai.py returns
\* any move of game.get_all_moves(), or None when there is none
OpponentTurn ==
    /\ ~game_over
    /\ ~raised
    /\ last_call # "choose_move"
    /\ current_turn # bot.color
    /\ Len(game_log) < ply_limit
    /\ LET moves == get_all_moves(board, current_turn)
       IN  IF moves = <<>>
           THEN /\ raised' = FALSE
                /\ last_call' = "update"
                /\ last_move' = <<>>
                /\ UpdateEffect(board, no_capture_count)
                /\ UNCHANGED <<board, current_turn, state_history, game_log,
                               move_notations, no_capture_count>>
           ELSE \E move \in SeqToSet(moves) :
                  IF IllegalMove(board, move)
                  THEN /\ raised' = TRUE
                       /\ last_call' = "make_move"
                       /\ last_move' = move
                       /\ UNCHANGED gameVars
                  ELSE /\ raised' = FALSE
                       /\ last_call' = "update"
                       /\ last_move' = <<>>
                       /\ MakeMoveEffect(move)
                       /\ UpdateEffect(board', no_capture_count')
    /\ UNCHANGED <<ply_limit, searchVars, probe>>

SearchInit ==
    /\ \E s \in SearchSetups : GameStarts(s)
    /\ ModuleImported
    /\ bot = CMAESBot("Gold")
    /\ probe = NoProbe

SearchNext == choose_move \/ BotApply \/ OpponentTurn

SearchSpec == SearchInit /\ [][SearchNext]_vars

-----------------------------------------------------------------------------
(* bitboard.py and moves.py called on their own, as the tests of test.py do *)

\* what a neighbouring cell holds in a call of a generator: nothing, a
\* Scarlet piece or a Gold piece
Contents == {0, -2, 13}

\* np.zeros with the Gold piece on pos and the cells of around filled
TestBoard(piece, pos, around, held) ==
    PlaceAll(EmptyBoard,
             << <<pos[1], pos[2], pos[3], piece>> >>
             \o [k \in 1 .. Len(around) |->
                   <<around[k][1], around[k][2], around[k][3], held[k]>>])

\* the cells a Gold Sylph on (0, 3, 3) can reach
SylphPos == <<0, 3, 3>>
SylphAround == << <<0, 2, 2>>, <<0, 2, 4>>, <<0, 2, 3>>, <<1, 3, 3>> >>

\* the cells ahead of a Gold Warrior on (layer, 4, 5)
WarriorPos(layer) == <<layer, 4, 5>>
WarriorAround(layer) == << <<layer, 3, 5>>, <<layer, 3, 4>>, <<layer, 3, 6>> >>

\* the positions the search's get_all_moves is called on: the set-up
\* positions and every position of the long game from the initial layout
SearchedBoards ==
    {create_initial_board, KingHuntBoard, FreezeBoard, SearchBoard, UnicornBoard}
    \cup {st[1] : st \in SeqToSet(BlockedGameStates)}

Pending(function, arguments) ==
    [function |-> function, arguments |-> arguments, result |-> <<>>, returned |-> FALSE]

\* the calls made: every position and every index of the board, and the two
\* generators on every filling of the cells around the piece
Calls ==
    {Pending("pos_to_index", <<layer, row, col>>) :
        layer \in 0 .. (NUM_BOARDS - 1), row \in 0 .. (BOARD_ROWS - 1),
        col \in 0 .. (BOARD_COLS - 1)}
    \cup {Pending("index_to_pos", <<index>>) : index \in Cells}
    \cup {Pending("generate_sylph_moves",
                  <<SylphPos, TestBoard(1, SylphPos, SylphAround, held), "Gold">>) :
             held \in [1 .. 4 -> Contents]}
    \cup {Pending("generate_warrior_moves",
                  <<WarriorPos(layer),
                    TestBoard(12, WarriorPos(layer), WarriorAround(layer), held), "Gold">>) :
             layer \in 0 .. (NUM_BOARDS - 1), held \in [1 .. 3 -> Contents]}
    \cup {Pending("get_all_moves", <<<<b, turn_flag>>, turn_flag>>) :
             b \in SearchedBoards, turn_flag \in {1, -1}}

Returned(result) == [probe EXCEPT !.result = result, !.returned = TRUE]

call_pos_to_index ==
    /\ probe.function = "pos_to_index"
    /\ ~probe.returned
    /\ probe' = Returned(pos_to_index(probe.arguments[1], probe.arguments[2],
                                      probe.arguments[3]))
    /\ UNCHANGED <<gameVars, last_call, raised, last_move, ply_limit, searchVars>>

call_index_to_pos ==
    /\ probe.function = "index_to_pos"
    /\ ~probe.returned
    /\ probe' = Returned(index_to_pos(probe.arguments[1]))
    /\ UNCHANGED <<gameVars, last_call, raised, last_move, ply_limit, searchVars>>

call_generate_sylph_moves ==
    /\ probe.function = "generate_sylph_moves"
    /\ ~probe.returned
    /\ probe' = Returned(generate_sylph_moves(probe.arguments[1], probe.arguments[2],
                                              probe.arguments[3]))
    /\ UNCHANGED <<gameVars, last_call, raised, last_move, ply_limit, searchVars>>

call_generate_warrior_moves ==
    /\ probe.function = "generate_warrior_moves"
    /\ ~probe.returned
    /\ probe' = Returned(generate_warrior_moves(probe.arguments[1], probe.arguments[2],
                                                probe.arguments[3]))
    /\ UNCHANGED <<gameVars, last_call, raised, last_move, ply_limit, searchVars>>

\* get_all_moves of evolve_dragonfish.py, as alphabeta calls it
call_search_get_all_moves ==
    /\ probe.function = "get_all_moves"
    /\ ~probe.returned
    /\ probe' = Returned(search_get_all_moves(probe.arguments[1], probe.arguments[2]))
    /\ UNCHANGED <<gameVars, last_call, raised, last_move, ply_limit, searchVars>>

\* Game(), and one call about to be made
UnitInit ==
    /\ GameStarts(AssignedGame(create_initial_board, 0, 0))
    /\ ModuleImported
    /\ bot = NoBot
    /\ probe \in Calls

UnitNext ==
    \/ call_pos_to_index
    \/ call_index_to_pos
    \/ call_generate_sylph_moves
    \/ call_generate_warrior_moves
    \/ call_search_get_all_moves

UnitSpec == UnitInit /\ [][UnitNext]_vars

-----------------------------------------------------------------------------
(* Properties                                                               *)

LegalMoves == SeqToSet(get_all_moves(board, current_turn))

\* a step in which make_move ran to its end on a move of get_all_moves
LegalMoveStep ==
    /\ last_call' = "make_move"
    /\ ~raised'
    /\ last_move' \in LegalMoves
    /\ Len(game_log') = Len(game_log) + 1

GoldKings(b) == {i \in Cells : b[i] = 10}
ScarletKings(b) == {i \in Cells : b[i] = -10}

\* C1: make_move on a move (from, to, flag) of get_all_moves flips
\* current_turn, empties board[from], puts the piece of 'from' on 'to' and
\* leaves every other cell as it was.
C1_MakeMoveFrame ==
    [][LegalMoveStep =>
        LET from_idx == last_move'[1]
            to_idx == last_move'[2]
        IN  /\ current_turn' # current_turn
            /\ current_turn' \in {"Gold", "Scarlet"}
            /\ board'[from_idx] = 0
            /\ board'[to_idx] = board[from_idx]
            /\ \A i \in Cells \ {from_idx, to_idx} : board'[i] = board[i]]_vars

\* the first move of a Game on the initial layout has been applied
C1_Witness ==
    /\ last_call = "make_move"
    /\ ~raised
    /\ Len(game_log) = 1
    /\ game_log[1] \in SeqToSet(get_all_moves(create_initial_board, "Gold"))
    /\ current_turn = "Scarlet"
    /\ board[game_log[1][1]] = 0
    /\ board[game_log[1][2]] = create_initial_board[game_log[1][1]]
    /\ \A i \in Cells \ {game_log[1][1], game_log[1][2]} : board[i] = create_initial_board[i]

\* C2: make_move with a destination that holds a piece of the side of the
\* piece on the source raises, and leaves the whole Game as it was.
C2_FriendlyDestinationRejected ==
    [][(last_call' = "make_move" /\ last_move' # <<>>
        /\ board[last_move'[1]] * board[last_move'[2]] > 0)
       => /\ raised'
          /\ UNCHANGED <<board, current_turn, no_capture_count, game_log,
                         move_notations, state_history, game_over, winner, frozen>>]_vars

\* a make_move onto a friendly piece has just raised, on a Game with a move
\* already in its logs
C2_Witness ==
    /\ last_call = "make_move"
    /\ raised
    /\ board[last_move[1]] # 0
    /\ board[last_move[1]] * board[last_move[2]] > 0
    /\ Len(game_log) >= 1
    /\ Len(move_notations) = Len(game_log)
    /\ Len(state_history) = Len(game_log)

\* C3: after update, no Gold King on the board means game_over with winner
\* "Scarlet"; a Gold King and no Scarlet King means game_over with winner
\* "Gold"; whatever move took the King.
C3_KingAbsenceDecides ==
    last_call = "update" =>
        /\ (GoldKings(board) = {} => (game_over /\ winner = "Scarlet"))
        /\ ((GoldKings(board) # {} /\ ScarletKings(board) = {})
               => (game_over /\ winner = "Gold"))

\* the Scarlet King of KingHuntBoard was taken by the THREED jump of the
\* Paladin, and update has run
C3_Witness ==
    /\ last_call = "update"
    /\ Len(game_log) = 1
    /\ game_log[1][3] = THREED
    /\ KingHuntBoard[game_log[1][2]] = -10
    /\ ScarletKings(board) = {}
    /\ winner = "Gold"

C4_Case ==
    /\ last_call = "update"
    /\ no_capture_count >= DRAW_LIMIT
    /\ (GoldKings(board) = {} \/ ScarletKings(board) = {})

C5_CounterTracksCaptures ==
    [][LegalMoveStep =>
        no_capture_count' = IF board[last_move'[2]] # 0 THEN 0
                            ELSE no_capture_count + 1]_vars

\* C6: after update, frozen[i] holds exactly for the middle-layer cells that
\* hold a piece with a Basilisk of the other side right below.
C6_FrozenExact ==
    last_call = "update" =>
        \A i \in Cells :
            frozen[i] <=>
                LET pos == index_to_pos(i)
                    below == board[pos_to_index(2, pos[2], pos[3])]
                IN  /\ pos[1] = 1
                    /\ board[i] # 0
                    /\ \/ below = 13 /\ board[i] < 0
                       \/ below = -13 /\ board[i] > 0

\* on FreezeBoard the Gold Warrior has left the cell above the Scarlet
\* Basilisk and update has run: that cell is not frozen, the Dwarf above the
\* Gold Basilisk still is
C6_Witness ==
    /\ last_call = "update"
    /\ Len(game_log) = 1
    /\ game_log[1] = <<pos_to_index(1, 3, 3), pos_to_index(1, 2, 3), QUIET>>
    /\ board[pos_to_index(2, 3, 3)] = -13
    /\ ~frozen[pos_to_index(1, 3, 3)]
    /\ frozen[pos_to_index(1, 6, 11)]

\* C7: every move of get_all_moves starts on a piece of the side to move and
\* meets the rule of its flag; none has a friendly destination, so make_move
\* does not raise on it.
C7_ReturnedMovesLegal ==
    \A m \in LegalMoves :
        LET src == board[m[1]]
            dst == board[m[2]]
            enemy == dst # 0 /\ src * dst < 0
        IN  /\ src # 0
            /\ (current_turn = "Gold") = (src > 0)
            /\ m[3] \in Flags
            /\ (m[3] = QUIET => dst = 0)
            /\ (m[3] \in {CAPTURE, AFAR} => enemy)
            /\ (m[3] \in {AMBIGUOUS, THREED} => (dst = 0 \/ enemy))
            /\ ~(dst # 0 /\ src * dst > 0)
            /\ ~IllegalMove(board, m)

\* a position reached by moves whose move list holds a THREED move and a CAPTURE onto enemy
\* pieces beside QUIET and AMBIGUOUS moves
C7_Witness ==
    /\ Len(game_log) >= 1
    /\ \E m \in LegalMoves : m[3] = THREED /\ board[m[2]] # 0
    /\ \E m \in LegalMoves : m[3] = CAPTURE /\ board[m[2]] # 0
    /\ \E m \in LegalMoves : m[3] = QUIET
    /\ \E m \in LegalMoves : m[3] = AMBIGUOUS /\ board[m[2]] = 0

\* C8: once game_over is set, neither make_move nor update changes the board,
\* current_turn, no_capture_count, the logs or winner.
C8_ImmutableOnceOver ==
    [][game_over =>
        UNCHANGED <<board, current_turn, no_capture_count, game_log,
                    move_notations, state_history, winner>>]_vars

PieceCount(b, code) == Cardinality({i \in Cells : b[i] = code})

PieceCodes == (-15 .. 15) \ {0}

\* the cells a step wrote a different code to
ChangedCells == {i \in Cells : board'[i] # board[i]}

\* C9: the board keeps its 288 cells with codes in -15..15 and at most one
\* King a side; a move changes its source and destination cells only, and no
\* count of pieces of a type and side ever grows.
C9_BoardIntegrity ==
    /\ [](/\ DOMAIN board = 0 .. 287
          /\ \A i \in DOMAIN board : board[i] \in -15 .. 15
          /\ Cardinality(GoldKings(board)) <= 1
          /\ Cardinality(ScarletKings(board)) <= 1)
    /\ [][/\ \A code \in {board'[i] : i \in ChangedCells} \ {0} :
                \* the cells outside ChangedCells count the same on both sides
                Cardinality({i \in ChangedCells : board'[i] = code})
                    <= Cardinality({i \in ChangedCells : board[i] = code})
          /\ LegalMoveStep =>
                \A i \in Cells \ {last_move'[1], last_move'[2]} : board'[i] = board[i]]_vars

\* a Game on the initial layout after its first move: every piece still on
\* the board, one of them on another cell
C9_Witness ==
    /\ Len(game_log) = 1
    /\ state_history[1][1] = board
    /\ board # create_initial_board
    /\ \A code \in PieceCodes : PieceCount(board, code) = PieceCount(create_initial_board, code)

\* C10: in the harness loop, when the side to move has no move, game_over is
\* already true.
C10_NoMoveMeansOver ==
    get_all_moves(board, current_turn) = <<>> => game_over

\* the legal moves of the position a search was given
RootMoves == SeqToSet(get_all_moves(search.given[1], ColorName(search.given[2])))

\* C11: when the deadline passes during the search of depth d, that search is
\* aborted, iterative_deepening returns the value and the move of depth d - 1,
\* the last that completed (nothing when d = 1), and no depth after d starts
C11_TimeoutReturnsLastCompleted ==
    (search.id # 0 /\ search.aborted # 0) =>
        /\ search.started = [k \in 1 .. search.aborted |-> k]
        /\ Len(search.completed) = search.aborted - 1
        /\ IF search.aborted = 1
           THEN search.best_move = <<>> /\ search.best_eval = <<>>
           ELSE /\ search.best_move = search.completed[search.aborted - 1][2]
                /\ search.best_eval = search.completed[search.aborted - 1][1]

\* a search whose depth 1 completed and whose depth 2 or 3 was aborted after
\* some of its calls had run
C11_Witness ==
    /\ search.id # 0
    /\ search.aborted >= 2
    /\ search.best_move # <<>>
    /\ \E seen \in search.ignored : seen.iteration = search.aborted

\* C12: when the root position has a legal move and depth 1 completes, the
\* move choose_move returns is a legal move of the root position for the side
\* to move, also when the cache holds entries of earlier depths and searches
C12_ReturnedMoveLegal ==
    (search.id # 0 /\ RootMoves # {} /\ Len(search.completed) >= 1) =>
        search.best_move \in RootMoves

\* a later search that completed depth 1 and returned a move, having read an
\* entry an earlier search stored
C12_Witness ==
    /\ search.id >= 2
    /\ last_call = "choose_move"
    /\ Len(search.completed) >= 1
    /\ search.best_move \in LegalMoves
    /\ \E seen \in search.hits : seen.by < search.id

\* C13: when the deadline passes before depth 1 completes and the side to
\* move has a legal move, choose_move returns a legal move
C13_FallsBackToLegalMove ==
    (search.id # 0 /\ RootMoves # {} /\ search.completed = <<>>) =>
        search.best_move \in RootMoves

\* C14: alphabeta returns a cached value only from an entry whose stored depth
\* is at least the depth requested; an entry of smaller depth is passed over
\* and the node searched again, which leaves an entry of the requested depth
\* or more once the depth that asked has completed
C14_CacheDepthRespected ==
    /\ \A seen \in search.hits : seen.stored >= seen.requested
    /\ \A seen \in search.ignored :
          /\ seen.stored < seen.requested
          /\ seen.iteration <= Len(search.completed) =>
                transposition_table[seen.key][1] >= seen.requested

\* a search that returned a cached value and passed over a shallower entry
C14_Witness ==
    /\ search.hits # {}
    /\ \E seen \in search.ignored :
          /\ seen.iteration <= Len(search.completed)
          /\ transposition_table[seen.key][1] >= seen.requested

\* C15: a search reads no cache entry stored by another choose_move call
C15_CachePrivateToSearch ==
    \A seen \in search.hits : seen.by = search.id

\* C16: simulate_move leaves the state it is given as it was, at the root and
\* below it, and a choose_move call, completed or timed out, leaves the board,
\* the turn, the counter, the logs and the history of the Game as they were
C16_SearchLeavesStateAlone ==
    /\ [](search.id # 0 =>
            /\ search.left = search.given
            /\ \A move \in RootMoves :
                  /\ simulate_move(search.given, move).argument = search.given
                  /\ simulate_move(search.given, move).returned[1] # search.given[1])
    /\ [][last_call' = "choose_move" =>
            UNCHANGED <<board, current_turn, no_capture_count, game_log,
                        move_notations, state_history>>]_vars

\* a search that timed out after simulating moves, the Game still as given
C16_Witness ==
    /\ last_call = "choose_move"
    /\ search.aborted >= 2
    /\ search.left = <<board, ColorFlag(current_turn)>>
    /\ RootMoves # {}

\* C17: pos_to_index and index_to_pos are inverse to each other: a position in
\* bounds goes to an index of [0, 288) that goes back to it, and an index of
\* [0, 288) goes to a position in bounds that goes back to it
C17_IndexBijection ==
    /\ (probe.returned /\ probe.function = "pos_to_index") =>
          /\ probe.result \in Cells
          /\ index_to_pos(probe.result) = probe.arguments
    /\ (probe.returned /\ probe.function = "index_to_pos") =>
          /\ in_bounds(probe.result[1], probe.result[2], probe.result[3])
          /\ pos_to_index(probe.result[1], probe.result[2], probe.result[3])
                = probe.arguments[1]

\* the last cell of the board, converted
C17_Witness ==
    /\ probe.returned
    /\ probe.function = "index_to_pos"
    /\ probe.arguments = <<TOTAL_SQUARES - 1>>
    /\ probe.result = <<NUM_BOARDS - 1, BOARD_ROWS - 1, BOARD_COLS - 1>>

\* C18: a new Game has Gold to move, no_capture_count 0, game_over false, no
\* winner, and the initial layout: 288 cells, one King a side, a Scarlet
\* Griffin on (0,0,2), a Gold Griffin on (0,7,2), Scarlet Warriors on all of
\* row 1 and Gold Warriors on all of row 6 of the middle layer, a Scarlet
\* Basilisk on (2,0,2)
C18_NewGame ==
    (last_call = "init" /\ game_log = <<>>) =>
        /\ current_turn = "Gold"
        /\ no_capture_count = 0
        /\ ~game_over
        /\ winner = "None"
        /\ DOMAIN board = Cells
        /\ Cardinality(GoldKings(board)) = 1
        /\ Cardinality(ScarletKings(board)) = 1
        /\ board[pos_to_index(0, 0, 2)] = -2
        /\ board[pos_to_index(0, 7, 2)] = 2
        /\ \A col \in 0 .. (BOARD_COLS - 1) :
              /\ board[pos_to_index(1, 1, col)] = -12
              /\ board[pos_to_index(1, 6, col)] = 12
        /\ board[pos_to_index(2, 0, 2)] = -13

\* the new Game, no method called on it
C18_Witness ==
    /\ last_call = "init"
    /\ game_log = <<>>
    /\ board = create_initial_board
    /\ Cardinality({i \in Cells : board[i] # 0}) > 0

\* the call of generate_sylph_moves for the Gold Sylph on (0, 3, 3)
SylphCall == probe.returned /\ probe.function = "generate_sylph_moves"

SylphMove(to, flag) ==
    <<pos_to_index(0, 3, 3), pos_to_index(to[1], to[2], to[3]), flag>>

WarriorCall == probe.returned /\ probe.function = "generate_warrior_moves"

WarriorMove(layer, col, flag) ==
    <<pos_to_index(layer, 4, 5), pos_to_index(layer, 3, col), flag>>

AloneOnBoard ==
    \A i \in Cells :
        probe.arguments[2][i] # 0
            => i = pos_to_index(probe.arguments[1][1], probe.arguments[1][2],
                                probe.arguments[1][3])

\* C21: the Sylph and Warrior generators give a candidate for every capture
\* square in bounds whatever it holds: on a board that holds the mover alone,
\* the Gold Sylph on (0,3,3) gets candidates to (0,2,2), (0,2,4), (0,2,3) and
\* (1,3,3), and the Gold Warrior on (1,4,5) a QUIET candidate to (1,3,5) and
\* CAPTURE candidates to (1,3,4) and (1,3,6)
C21_CaptureCandidatesOnEmpty ==
    /\ (SylphCall /\ AloneOnBoard) =>
          \A k \in 1 .. Len(SylphAround) :
             \E flag \in Flags : SylphMove(SylphAround[k], flag) \in SeqToSet(probe.result)
    /\ (WarriorCall /\ AloneOnBoard /\ probe.arguments[1] = WarriorPos(1)) =>
          /\ WarriorMove(1, 5, QUIET) \in SeqToSet(probe.result)
          /\ WarriorMove(1, 4, CAPTURE) \in SeqToSet(probe.result)
          /\ WarriorMove(1, 6, CAPTURE) \in SeqToSet(probe.result)

LayerOf(idx) == index_to_pos(idx)[1]

\* the layer an Oliphant, Unicorn, Thief, Warrior or Basilisk is confined to,
\* -1 for the other pieces
ConfinedLayer(code) ==
    IF code \in {4, 5, 7, 12} THEN 1 ELSE IF code = 13 THEN 2 ELSE -1

PieceColor(piece) == IF piece > 0 THEN "Gold" ELSE "Scarlet"

\* on board b every confined piece, of either side, stands on its layer and
\* every candidate its generator returns lands on that layer
StaysOnLayer(b) ==
    \A idx \in Cells :
        LET code == Abs(b[idx])
        IN  ConfinedLayer(code) # -1 =>
              /\ LayerOf(idx) = ConfinedLayer(code)
              /\ \A m \in SeqToSet(move_generators(code, index_to_pos(idx), b,
                                                   PieceColor(b[idx]))) :
                    LayerOf(m[2]) = ConfinedLayer(code)

\* C22: every move generated for an Oliphant, Unicorn, Thief or Warrior lands
\* on the middle layer and every move generated for a Basilisk on the bottom
\* layer, so in the states reached from the initial layout by moves of
\* get_all_moves, those of the 139-move game included, these pieces are on
\* their layers
C22_LayerConfinement ==
    /\ StaysOnLayer(board)
    /\ (last_call = "init" /\ board = create_initial_board) =>
          \A states \in {BlockedGameStates} :
             \A k \in 1 .. Len(states) : StaysOnLayer(states[k][1])

\* a Unicorn has made the first move of a game from the initial layout
C22_Witness ==
    /\ Len(game_log) = 1
    /\ Abs(board[game_log[1][2]]) = 5
    /\ LayerOf(game_log[1][1]) = 1
    /\ LayerOf(game_log[1][2]) = 1

\* the call of the search's get_all_moves
MoveListCall == probe.returned /\ probe.function = "get_all_moves"

IsCapture(move) == move[3] \in {CAPTURE, AFAR}

\* the moves in the order the loop over the cells appends them, before the sort
Generated(state, color) ==
    Flatten([k \in 1 .. TOTAL_SQUARES |-> SearchMovesFromIndex(state[1], color, k - 1)])

\* C23: in the list the search's get_all_moves returns no QUIET, AMBIGUOUS or
\* THREED move precedes a CAPTURE or AFAR move, and the moves of each of the
\* two groups are in the order they were generated in
C23_CapturesFirst ==
    MoveListCall =>
        LET moves == probe.result
            generated == Generated(probe.arguments[1], probe.arguments[2])
        IN  /\ \A i, j \in 1 .. Len(moves) :
                  (i < j /\ IsCapture(moves[j])) => IsCapture(moves[i])
            /\ SelectSeq(moves, IsCapture) = SelectSeq(generated, IsCapture)
            /\ SelectSeq(moves, LAMBDA m : ~IsCapture(m))
                  = SelectSeq(generated, LAMBDA m : ~IsCapture(m))

\* a list with an AFAR move, a CAPTURE move and moves of other flags, which
\* the sort has reordered
C23_Witness ==
    /\ MoveListCall
    /\ \E i \in 1 .. Len(probe.result) : probe.result[i][3] = AFAR
    /\ \E i \in 1 .. Len(probe.result) : probe.result[i][3] = CAPTURE
    /\ \E i \in 1 .. Len(probe.result) : probe.result[i][3] = THREED
    /\ probe.result # Generated(probe.arguments[1], probe.arguments[2])

\* the depth-limited minimax value of a state, with the evaluator and the leaf
\* rule of alphabeta (depth 0 or no move), without window and without cache
RECURSIVE PlainMinimax(_, _, _, _, _, _)
PlainMinimax(state, depth, maximizingPlayer, my_color, history, weights) ==
    LET moves == search_get_all_moves(state, state[2])
    IN  IF depth = 0 \/ moves = <<>>
        THEN evaluate_state(state, my_color, history, weights, weights)
        ELSE LET vals == {PlainMinimax(simulate_move(state, moves[k]).returned, depth - 1,
                                       ~maximizingPlayer, my_color, history, weights) :
                             k \in 1 .. Len(moves)}
             IN  IF maximizingPlayer
                 THEN CHOOSE v \in vals : \A w \in vals : v >= w
                 ELSE CHOOSE v \in vals : \A w \in vals : v <= w

\* what the search of depth d returned is the minimax value of the root and a
\* move whose subtree has that value
ExactAtDepth(d) ==
    \E exact \in {PlainMinimax(search.given, d, TRUE, bot.color_flag, state_history,
                               bot.weights_mg)} :
       /\ search.completed[d][1] = exact
       /\ IF search.completed[d][2] = <<>>
          THEN RootMoves = {}
          ELSE /\ search.completed[d][2] \in RootMoves
               /\ PlainMinimax(simulate_move(search.given, search.completed[d][2]).returned,
                               d - 1, FALSE, bot.color_flag, state_history, bot.weights_mg)
                     = exact

\* C24: every depth d that iterative_deepening completes on a root gives the
\* depth-d minimax value of the root and a move that attains it, as a search
\* without pruning and without cache would
C24_ExactMinimax ==
    last_call = "choose_move" =>
        \A d \in 1 .. Len(search.completed) : ExactAtDepth(d)

\* the state CMAESBot.choose_move hands to the search for the Game as it is
GameState == <<board, ColorFlag(current_turn)>>

\* C25: the search's get_all_moves on (board, turn) lists the same set of
\* moves as Game.get_all_moves, simulate_move on each of them gives the board
\* and the side to move that Game.make_move gives, and each move the loop
\* applies takes the Game to the state simulate_move returns for it
C25_SearchAgreesWithGame ==
    /\ [](\E listed \in {search_get_all_moves(GameState, GameState[2])} :
            /\ SeqToSet(listed) = LegalMoves
            /\ \A move \in LegalMoves :
                  /\ ~IllegalMove(board, move)
                  /\ simulate_move(GameState, move).returned
                        = <<BoardAfter(board, move), ColorFlag(Other(current_turn))>>)
    /\ [][Len(game_log') = Len(game_log) + 1 =>
            <<board', ColorFlag(current_turn')>>
               = simulate_move(GameState, game_log'[Len(game_log')]).returned]_vars

\* a position reached by a move of the loop in which the side to move has an
\* AFAR capture, QUIET moves and AMBIGUOUS moves
C25_Witness ==
    /\ game_log # <<>>
    /\ last_call = "update"
    /\ \E move \in LegalMoves : move[3] = AFAR
    /\ \E move \in LegalMoves : move[3] = QUIET
    /\ \E move \in LegalMoves : move[3] = AMBIGUOUS

\* a step in which a move was applied, and that move
MoveApplied == Len(game_log') = Len(game_log) + 1
AppliedMove == game_log'[Len(game_log')]

\* C26: an AFAR move is applied like a capture: the Dragon goes from its
\* top-layer cell, which is emptied, onto the middle-layer cell of the piece it
\* takes; a Dragon off the top layer has no legal move, and no Dragon comes to
\* a top-layer cell but from another top-layer cell
C26_AfarRelocates ==
    /\ [](\A idx \in Cells :
            (Abs(board[idx]) = 3 /\ LayerOf(idx) # 0) =>
                MovesFromIndex(board, PieceColor(board[idx]), idx) = <<>>)
    /\ [][MoveApplied =>
            /\ AppliedMove[3] = AFAR =>
                  /\ Abs(board[AppliedMove[1]]) = 3
                  /\ LayerOf(AppliedMove[1]) = 0
                  /\ LayerOf(AppliedMove[2]) = 1
                  /\ board[AppliedMove[2]] # 0
                  /\ board'[AppliedMove[2]] = board[AppliedMove[1]]
                  /\ board'[AppliedMove[1]] = 0
            /\ \A idx \in Cells :
                  (LayerOf(idx) = 0 /\ Abs(board'[idx]) = 3 /\ board'[idx] # board[idx]) =>
                      idx = AppliedMove[2] /\ LayerOf(AppliedMove[1]) = 0]_vars

\* two moves into a game, a Dragon stands on the middle-layer cell it took by
\* an AFAR move, the other side has replied and the Dragon's side is to move
C26_Witness ==
    \E k \in 1 .. Len(game_log) :
       /\ last_call = "update"
       /\ Len(game_log) = 2
       /\ game_log[k][3] = AFAR
       /\ k < Len(game_log)
       /\ Abs(board[game_log[k][2]]) = 3
       /\ LayerOf(game_log[k][2]) = 1
       /\ current_turn = PieceColor(board[game_log[k][2]])
       /\ LegalMoves # {}

\* the moves that the loop applies to this Game are used up
PliesUsedUp == Len(game_log) >= ply_limit

\* the next pass of the loop changes the Game: choose_move returns a move,
\* which make_move applies, or update alone changes game_over, winner or frozen
PassChangesGame ==
    \/ LegalMoves # {}
    \/ GameOverAfter(board, no_capture_count, game_over) # game_over
    \/ WinnerAfter(board, no_capture_count, winner) # winner
    \/ FrozenAfter(board) # frozen

\* C27: a game driven by the loop, choose_move returning a legal move whenever
\* there is one, reaches game_over: no_capture_count is at most 250 in every
\* state of the loop, and the loop is never, with game_over false, in a state
\* that its next pass leaves as it is (from such a state it runs without end)
C27_LoopEnds ==
    /\ no_capture_count <= DRAW_LIMIT
    /\ (last_call = "update" /\ ~game_over /\ ~PliesUsedUp) => PassChangesGame

\* C28: game_log, move_notations and state_history have one entry per
\* make_move that ran to its end, whatever update calls come in between: such
\* a call appends its move to game_log and one entry to each of the other two
\* and flips the turn, so that Gold is to move exactly when the number of moves
\* is even; a make_move that raises, and an update, add nothing and leave the
\* turn
C28_LogsCountMoves ==
    /\ [](/\ Len(move_notations) = Len(game_log)
          /\ Len(state_history) = Len(game_log)
          /\ current_turn = "Gold" <=> Len(game_log) % 2 = 0)
    /\ [][/\ (last_call' = "make_move" /\ ~raised') =>
                /\ game_log' = Append(game_log, last_move')
                /\ Len(move_notations') = Len(move_notations) + 1
                /\ Len(state_history') = Len(state_history) + 1
                /\ current_turn' # current_turn
          /\ ((last_call' = "make_move" /\ raised') \/ last_call' = "update") =>
                UNCHANGED <<game_log, move_notations, state_history, current_turn>>]_vars

\* a make_move was rejected after one move and the update that found the game
\* over: the logs hold one entry and Scarlet is still to move
C28_Witness ==
    /\ last_call = "make_move"
    /\ raised
    /\ Len(game_log) = 1
    /\ Len(state_history) = 1
    /\ current_turn = "Scarlet"
    /\ game_over

\* C29: game_over is true exactly when winner is "Gold", "Scarlet" or "Draw",
\* winner is None exactly while game_over is false, and no make_move and no
\* update sets game_over back to false
C29_GameOverStable ==
    /\ [](/\ winner \in {"None", "Gold", "Scarlet", "Draw"}
          /\ game_over <=> winner \in {"Gold", "Scarlet", "Draw"}
          /\ ~game_over <=> winner = "None")
    /\ [][game_over => game_over']_vars

\* a move was applied to a Game that was over, and the Game is still over
C29_Witness ==
    /\ game_over
    /\ winner = "Gold"
    /\ last_call = "make_move"
    /\ ~raised
    /\ Len(game_log) = 2

\* what one more call of update would assign is what the fields already hold
UpdateRepeats ==
    /\ FrozenAfter(board) = frozen
    /\ GameOverAfter(board, no_capture_count, game_over) = game_over
    /\ WinnerAfter(board, no_capture_count, winner) = winner

\* C30: update leaves board, current_turn, no_capture_count, game_log,
\* move_notations and state_history unchanged, and a second update with no
\* make_move in between leaves frozen, game_over and winner as the first set them
C30_UpdateIdempotent ==
    /\ [](last_call = "update" => UpdateRepeats)
    /\ [][last_call' = "update" =>
            UNCHANGED <<board, current_turn, no_capture_count, game_log,
                        move_notations, state_history>>]_vars
    /\ [][(last_call = "update" /\ last_call' = "update") =>
            UNCHANGED <<frozen, game_over, winner>>]_vars

\* update ran after the move that brought the count to the limit and drew the game
C30_Witness ==
    /\ last_call = "update"
    /\ Len(game_log) = 2
    /\ no_capture_count = DRAW_LIMIT
    /\ game_over
    /\ winner = "Draw"

=============================================================================
